---- MODULE Spec2Model ----
(***************************************************************************)
(* aiida-wannier90, postparsers.py: PostWannier90Parser.parse and the      *)
(* line scanner raw_wpout_parser, as a state machine.                      *)
(*                                                                         *)
(* Lines are strings; Python's `in`, str.split, int() and float() are      *)
(* computed character by character.  The scanner is modelled statement     *)
(* block by statement block, so that a loop that never ends is a cycle of  *)
(* the model and an uncaught exception is a terminal position.             *)
(***************************************************************************)
EXTENDS Integers, Sequences, FiniteSets, TLC

VARIABLES
    seedname,           \* self.node.get_options()['seedname']
    retrieved,          \* TRUE iff self.retrieved does not raise NotExistent
    files,              \* out_folder.list_object_names()
    dos_requested,      \* TRUE iff self.node.inputs.dos exists
    stdout_content,     \* the lines of <seed>.wpout (no line ends), <<>> if absent
    dos_content,        \* the rows of <seed>-dos.dat, <<>> if absent
    pc,                 \* position in parse
    exit_code,          \* what parse returns
    outputs,            \* the calls of self.out, in order
    exiting_in_stdout,
    out_file,
    wann_out_file,      \* argument of raw_wpout_parser
    rpc,                \* position in raw_wpout_parser
    k,                  \* the value the for statement draws from range(len(...))
    i,                  \* the local i, which the section scans advance
    line,               \* the local line: a string, or a list after 'Grid size'
    out,                \* the local out
    error               \* the exception raw_wpout_parser raised, or "none"

envvars == <<seedname, retrieved, files, dos_requested, stdout_content, dos_content>>
parsevars == <<pc, exit_code, outputs, exiting_in_stdout, out_file>>
rawvars == <<wann_out_file, rpc, k, i, line, out, error>>
vars == <<seedname, retrieved, files, dos_requested, stdout_content, dos_content,
          pc, exit_code, outputs, exiting_in_stdout, out_file,
          wann_out_file, rpc, k, i, line, out, error>>

(***************************************************************************)
(* Bounds and input alphabets.                                             *)
(***************************************************************************)
MaxLen == 3             \* longest line list handed to raw_wpout_parser directly
MaxStdoutLen == 4       \* longest <seed>.wpout read by parse
MaxWarnings == 5        \* the POSTW90 scan is followed until out['warnings'] is this long

RawLines == {
    "POSTW90",
    "Number of Wannier Functions : 4 x",
    "-----",
    "DOS",
    "*----- DOS -----*",
    "Grid size a b 10 c 20 d 30 e",
    "Grid size a b 10 c 20 d 30",
    "Warning: check",
    "Length Unit : Bohr x",
    "Minimum energy range for DOS plot : -3.5 x",
    "Fermi energy (eV) : 6.2 x" }

StdoutLines == {
    "job Exiting......",
    "POSTW90",
    "Number of Wannier Functions : 4 x",
    "-----",
    "DOS" }

Seeds == {"gaas"}
DosTables == { << <<0, 1>>, <<1, 3>> >> }

SeqsUpTo(S, n) == UNION { [1..m -> S] : m \in 0..n }

(***************************************************************************)
(* Python string primitives.                                               *)
(***************************************************************************)
\* pat in s, for strings
In(pat, s) ==
    \E j \in 1..(Len(s) - Len(pat) + 1) : SubSeq(s, j, j + Len(pat) - 1) = pat

IsSpace(c) == c \in {" ", "\t", "\n"}

RECURSIVE SplitFrom(_, _, _)
SplitFrom(s, j, cur) ==
    IF j > Len(s)
    THEN IF cur = "" THEN <<>> ELSE <<cur>>
    ELSE LET c == SubSeq(s, j, j) IN
         IF IsSpace(c)
         THEN IF cur = "" THEN SplitFrom(s, j + 1, "")
                          ELSE <<cur>> \o SplitFrom(s, j + 1, "")
         ELSE SplitFrom(s, j + 1, cur \o c)

\* s.split()
Split(s) == SplitFrom(s, 1, "")

IsDigit(c) == \E d \in 0..9 : SubSeq("0123456789", d + 1, d + 1) = c
DigitVal(c) == CHOOSE d \in 0..9 : SubSeq("0123456789", d + 1, d + 1) = c

HasSign(t) == Len(t) >= 1 /\ SubSeq(t, 1, 1) \in {"+", "-"}
Unsigned(t) == IF HasSign(t) THEN SubSeq(t, 2, Len(t)) ELSE t
SignOf(t) == IF Len(t) >= 1 /\ SubSeq(t, 1, 1) = "-" THEN -1 ELSE 1

AllDigits(t) == \A j \in 1..Len(t) : IsDigit(SubSeq(t, j, j))

RECURSIVE DigitsVal(_)
DigitsVal(t) ==
    IF Len(t) = 0 THEN 0
    ELSE 10 * DigitsVal(SubSeq(t, 1, Len(t) - 1)) + DigitVal(SubSeq(t, Len(t), Len(t)))

\* int(t) succeeds: an optional sign and one or more decimal digits
IsIntLiteral(t) == Len(Unsigned(t)) >= 1 /\ AllDigits(Unsigned(t))
IntValue(t) == SignOf(t) * DigitsVal(Unsigned(t))

\* float(t) succeeds: an optional sign, decimal digits with at most one point
\* and at least one digit (exponents, inf and nan are outside the alphabet)
DotsIn(t) == { j \in 1..Len(t) : SubSeq(t, j, j) = "." }
WithoutDot(t) ==
    IF DotsIn(t) = {} THEN t
    ELSE LET d == CHOOSE j \in DotsIn(t) : TRUE IN
         SubSeq(t, 1, d - 1) \o SubSeq(t, d + 1, Len(t))
IsFloatLiteral(t) ==
    /\ Cardinality(DotsIn(Unsigned(t))) <= 1
    /\ Len(WithoutDot(Unsigned(t))) >= 1
    /\ AllDigits(WithoutDot(Unsigned(t)))

RECURSIVE Pow10(_)
Pow10(n) == IF n = 0 THEN 1 ELSE 10 * Pow10(n - 1)

RECURSIVE Reduce10(_)
Reduce10(q) ==
    IF q.den > 1 /\ q.num % 10 = 0
    THEN Reduce10([num |-> q.num \div 10, den |-> q.den \div 10])
    ELSE q

\* float(t) as the decimal fraction num/den in lowest power-of-ten terms
FloatValue(t) ==
    LET u == Unsigned(t)
        frac == IF DotsIn(u) = {} THEN 0
                ELSE Len(u) - (CHOOSE j \in DotsIn(u) : TRUE)
        q == Reduce10([num |-> DigitsVal(WithoutDot(u)), den |-> Pow10(frac)])
    IN  [num |-> SignOf(t) * q.num, den |-> q.den]

(***************************************************************************)
(* Python dict and exception plumbing of raw_wpout_parser.                 *)
(***************************************************************************)
\* out.update({key: val})
Update(o, key, val) ==
    [x \in DOMAIN o \cup {key} |-> IF x = key THEN val ELSE o[x]]

\* out['warnings'].append(w)
AppendWarning(o, w) == Update(o, "warnings", Append(o["warnings"], w))

Ok(o) == [out |-> o, err |-> "none"]
Raise(o, e) == [out |-> o, err |-> e]

\* the local `line` holding a string, or the list of line 170
StrLine(s) == [list |-> FALSE, str |-> s, items |-> <<>>]
ListLine(l) == [list |-> TRUE, str |-> "", items |-> l]

\* wann_out_file[j], j counted from 0
At(f, j) == f[j + 1]
InRange(f, j) == j >= 0 /\ j < Len(f)

\* '-----' in line: a substring test on a string, a membership test on a list
HasDashes(l) ==
    IF l.list THEN \E j \in 1..Len(l.items) : l.items[j] = "-----"
    ELSE In("-----", l.str)

\* F applied to the value of e, which is computed once
With(e, F(_)) == CHOOSE y \in { F(x) : x \in {e} } : TRUE

\* line.split()[-2], given toks = line.split()
ValueToken(toks) == toks[Len(toks) - 1]
HasValueToken(toks) == Len(toks) >= 2

\* out.update({key: int(line.split()[-2])})
ExtractInt(o, key, toks) ==
    IF ~HasValueToken(toks) THEN Raise(o, "IndexError")
    ELSE IF ~IsIntLiteral(ValueToken(toks)) THEN Raise(o, "ValueError")
    ELSE Ok(Update(o, key, IntValue(ValueToken(toks))))

\* out.update({key: float(line.split()[-2])})
ExtractFloat(o, key, toks) ==
    IF ~HasValueToken(toks) THEN Raise(o, "IndexError")
    ELSE IF ~IsFloatLiteral(ValueToken(toks)) THEN Raise(o, "ValueError")
    ELSE Ok(Update(o, key, FloatValue(ValueToken(toks))))

UnitsWarning == "Units not Ang, be sure this is OK!"
VerbosityWarning ==
    "Parsing is only supported directly supported if output verbosity is set to 1"

\* lines 141-147
ExtractLengthUnit(o, toks) ==
    IF ~HasValueToken(toks) THEN Raise(o, "IndexError")
    ELSE IF ValueToken(toks) # "Ang"
         THEN Ok(AppendWarning(Update(o, "length_units", ValueToken(toks)), UnitsWarning))
         ELSE Ok(Update(o, "length_units", ValueToken(toks)))

\* lines 149-155
ExtractVerbosity(o, toks) ==
    With(ExtractInt(o, "output_verbosity", toks),
         LAMBDA r : IF r.err # "none" THEN r
                    ELSE IF r.out["output_verbosity"] # 1
                         THEN Ok(AppendWarning(r.out, VerbosityWarning))
                         ELSE r)

\* one `if pattern in line: ...` of a loop body on the string s, skipped once
\* an exception is up; then is the outcome of the statements under the if
Step(r, pat, s, then) ==
    IF r.err # "none" THEN r
    ELSE IF In(pat, s) THEN then
    ELSE r

\* lines 126-155 on the tokens of s
PostBodyOn(o, s, toks) ==
    With(Step(Ok(o), "Number of Wannier Functions", s,
              ExtractInt(o, "number_wannier_functions", toks)),
    LAMBDA r1 :
    With(Step(r1, "Number of electrons per state", s,
              ExtractInt(r1.out, "number_electrons_per_state", toks)),
    LAMBDA r2 :
    With(Step(r2, "Fermi energy (eV)", s,
              ExtractInt(r2.out, "fermi_energy", toks)),
    LAMBDA r3 :
    With(Step(r3, "Length Unit", s, ExtractLengthUnit(r3.out, toks)),
    LAMBDA r4 :
    Step(r4, "Output verbosity (1=low, 5=high)", s, ExtractVerbosity(r4.out, toks))))))

\* lines 126-155: the body of the POSTW90 scan on the string s
PostBodyResult(o, s) == With(Split(s), LAMBDA toks : PostBodyOn(o, s, toks))

\* line.split()[4:-1], given toks = line.split()
GridSlice(toks) ==
    IF Len(toks) - 1 < 5 THEN <<>> ELSE SubSeq(toks, 5, Len(toks) - 1)

\* lines 171-173 on g = line.split()[4:-1]
GridOn(o, g) ==
    IF Len(g) < 1 THEN Raise(o, "IndexError")
    ELSE IF ~IsIntLiteral(g[1]) THEN Raise(o, "ValueError")
    ELSE IF Len(g) < 3 THEN Raise(o, "IndexError")
    ELSE IF ~IsIntLiteral(g[3]) THEN Raise(o, "ValueError")
    ELSE IF Len(g) < 5 THEN Raise(o, "IndexError")
    ELSE IF ~IsIntLiteral(g[5]) THEN Raise(o, "ValueError")
    ELSE Ok(Update(o, "dos_kmesh", <<IntValue(g[1]), IntValue(g[3]), IntValue(g[5])>>))

\* lines 170-173
ExtractGrid(o, toks) == With(GridSlice(toks), LAMBDA g : GridOn(o, g))

\* lines 163-173 on the tokens of s
DosBodyOn(o, s, toks) ==
    With(Step(Ok(o), "Minimum energy range for DOS plot", s,
              ExtractFloat(o, "dos_energy_min", toks)),
    LAMBDA r1 :
    With(Step(r1, "Maximum energy range for DOS plot", s,
              ExtractFloat(r1.out, "dos_energy_max", toks)),
    LAMBDA r2 :
    With(Step(r2, "Energy step for DOS plot", s,
              ExtractFloat(r2.out, "dos_energy_step", toks)),
    LAMBDA r3 :
    Step(r3, "Grid size", s, ExtractGrid(r3.out, toks)))))

\* lines 163-173: the body of the DOS scan on the string s
DosBodyResult(o, s) == With(Split(s), LAMBDA toks : DosBodyOn(o, s, toks))

\* the value of `line` after the body: line 170 rebinds it to the slice
LineAfterDosBody(s) ==
    IF In("Grid size", s) THEN ListLine(GridSlice(Split(s))) ELSE StrLine(s)

\* a 'Warning' test with the condition inverted
HasNoWarning(s) == ~In("Warning", s)

\* 'Warning' in line
HasWarning(s) == In("Warning", s)

\* a POSTW90 scan that ends its body with i += 1, as the DOS scan does
PostAdvanceByOne(j) == j + 1

\* the cursor after one pass of the POSTW90 loop body (the body has no i += 1)
PostAdvance(j) == j

\* a for statement that resumes behind the lines a section scan walked over
ForAdvanceFromCursor(kk, ii) == IF ii > kk THEN ii ELSE kk + 1

\* line 104: range(len(wann_out_file)) yields the next index, whatever the
\* body made of i
ForAdvance(kk, ii) == kk + 1

\* the cursor after one pass of the DOS loop body (line 174)
DosAdvance(j) == j + 1

(***************************************************************************)
(* raw_wpout_parser, one action per statement block.                       *)
(***************************************************************************)
\* lines 102-103
EnterParser(f) ==
    /\ wann_out_file' = f
    /\ rpc' = "for"
    /\ k' = 0
    /\ i' = 0
    /\ line' = StrLine("")
    /\ out' = [x \in {"warnings"} |-> <<>>]
    /\ error' = "none"

\* lines 104-109: the for statement draws the next index, whatever i became
ForIter ==
    /\ rpc = "for"
    /\ k < Len(wann_out_file)
    /\ i' = k
    /\ line' = StrLine(At(wann_out_file, k))
    /\ out' = IF HasWarning(At(wann_out_file, k))
              THEN AppendWarning(out, At(wann_out_file, k))
              ELSE out
    /\ rpc' = "post_if"
    /\ UNCHANGED <<wann_out_file, k, error>>
    /\ UNCHANGED <<envvars, parsevars>>

\* lines 121-123
PostIf ==
    /\ rpc = "post_if"
    /\ IF In("POSTW90", line.str)
       THEN /\ i' = i + 1
            /\ IF InRange(wann_out_file, i + 1)
               THEN /\ line' = StrLine(At(wann_out_file, i + 1))
                    /\ rpc' = "post_while"
                    /\ error' = error
               ELSE /\ line' = line
                    /\ rpc' = "raised"
                    /\ error' = "IndexError"
       ELSE /\ rpc' = "dos_if"
            /\ UNCHANGED <<i, line, error>>
    /\ UNCHANGED <<wann_out_file, k, out>>
    /\ UNCHANGED <<envvars, parsevars>>

\* line 124
PostTest ==
    /\ rpc = "post_while"
    /\ rpc' = IF ~HasDashes(line) THEN "post_body" ELSE "dos_if"
    /\ UNCHANGED <<wann_out_file, k, i, line, out, error>>
    /\ UNCHANGED <<envvars, parsevars>>

\* lines 125-155
PostBody ==
    /\ rpc = "post_body"
    /\ Len(out["warnings"]) < MaxWarnings
    /\ IF ~InRange(wann_out_file, i)
       THEN /\ rpc' = "raised"
            /\ error' = "IndexError"
            /\ UNCHANGED <<i, line, out>>
       ELSE \E r \in {PostBodyResult(out, At(wann_out_file, i))} :
                IF r.err = "none"
                THEN /\ out' = r.out
                     /\ line' = StrLine(At(wann_out_file, i))
                     /\ i' = PostAdvance(i)
                     /\ rpc' = "post_while"
                     /\ error' = error
                ELSE /\ out' = out
                     /\ line' = StrLine(At(wann_out_file, i))
                     /\ i' = i
                     /\ rpc' = "raised"
                     /\ error' = r.err
    /\ UNCHANGED <<wann_out_file, k>>
    /\ UNCHANGED <<envvars, parsevars>>

\* lines 158-160
DosIf ==
    /\ rpc = "dos_if"
    /\ IF In("DOS", line.str)
       THEN /\ i' = i + 1
            /\ IF InRange(wann_out_file, i + 1)
               THEN /\ line' = StrLine(At(wann_out_file, i + 1))
                    /\ rpc' = "dos_while"
                    /\ error' = error
               ELSE /\ line' = line
                    /\ rpc' = "raised"
                    /\ error' = "IndexError"
            /\ k' = k
       ELSE /\ rpc' = "for"
            /\ k' = ForAdvance(k, i)
            /\ UNCHANGED <<i, line, error>>
    /\ UNCHANGED <<wann_out_file, out>>
    /\ UNCHANGED <<envvars, parsevars>>

\* line 161
DosTest ==
    /\ rpc = "dos_while"
    /\ IF ~HasDashes(line)
       THEN rpc' = "dos_body" /\ k' = k
       ELSE rpc' = "for" /\ k' = ForAdvance(k, i)
    /\ UNCHANGED <<wann_out_file, i, line, out, error>>
    /\ UNCHANGED <<envvars, parsevars>>

\* lines 162-174
DosBody ==
    /\ rpc = "dos_body"
    /\ IF ~InRange(wann_out_file, i)
       THEN /\ rpc' = "raised"
            /\ error' = "IndexError"
            /\ UNCHANGED <<i, line, out>>
       ELSE \E r \in {DosBodyResult(out, At(wann_out_file, i))} :
                IF r.err = "none"
                THEN /\ out' = r.out
                     /\ line' = LineAfterDosBody(At(wann_out_file, i))
                     /\ i' = DosAdvance(i)
                     /\ rpc' = "dos_while"
                     /\ error' = error
                ELSE /\ out' = out
                     /\ line' = StrLine(At(wann_out_file, i))
                     /\ i' = i
                     /\ rpc' = "raised"
                     /\ error' = r.err
    /\ UNCHANGED <<wann_out_file, k>>
    /\ UNCHANGED <<envvars, parsevars>>

\* line 179
ForReturn ==
    /\ rpc = "for"
    /\ k >= Len(wann_out_file)
    /\ rpc' = "returned"
    /\ UNCHANGED <<wann_out_file, k, i, line, out, error>>
    /\ UNCHANGED <<envvars, parsevars>>

NextRaw ==
    \/ ForIter
    \/ PostIf
    \/ PostTest
    \/ PostBody
    \/ DosIf
    \/ DosTest
    \/ DosBody
    \/ ForReturn

\* raw_wpout_parser called on its own with any line list
InitRaw ==
    /\ seedname \in Seeds
    /\ retrieved = FALSE
    /\ files = {}
    /\ dos_requested = FALSE
    /\ stdout_content = <<>>
    /\ dos_content = <<>>
    /\ pc = "direct"
    /\ exit_code = "unset"
    /\ outputs = <<>>
    /\ exiting_in_stdout = FALSE
    /\ out_file = <<>>
    /\ wann_out_file \in SeqsUpTo(RawLines, MaxLen)
    /\ rpc = "for"
    /\ k = 0
    /\ i = 0
    /\ line = StrLine("")
    /\ out = [x \in {"warnings"} |-> <<>>]
    /\ error = "none"

SpecRaw == InitRaw /\ [][NextRaw]_vars

\* the interpreter always runs the next statement
FairSpecRaw == InitRaw /\ [][NextRaw]_vars /\ WF_vars(NextRaw)

(***************************************************************************)
(* PostWannier90Parser.parse.                                              *)
(***************************************************************************)
\* lines 39-40 and 71
output_file_name(seed) == seed \o ".wpout"
\* the error file looked up under another suffix
error_file_name_err(seed) == seed \o ".err"
error_file_name(seed) == seed \o ".werr"
dos_file_name(seed) == seed \o "-dos.dat"

\* handle.readlines(): every line with its line end
ReadLines(content) == [j \in DOMAIN content |-> content[j] \o "\n"]

\* any('Exiting......' in line for line in out_file)
AnyExiting(f) == \E j \in DOMAIN f : In("Exiting......", f[j])

\* lines 200-205: the two columns of the table as the x and y of an XyData
dos_parser(rows) ==
    [x |-> [j \in DOMAIN rows |-> rows[j][1]], x_name |-> "energy", x_units |-> "eV",
     y |-> [j \in DOMAIN rows |-> rows[j][2]], y_name |-> "dos", y_units |-> "states/eV"]

\* self.out(name, value)
Publish(o, name, value) == Append(o, [name |-> name, value |-> value])

\* lines 44-47
GetRetrieved ==
    /\ pc = "start"
    /\ IF retrieved
       THEN pc' = "check_werr" /\ exit_code' = exit_code
       ELSE pc' = "done" /\ exit_code' = "ERROR_NO_RETRIEVED_FOLDER"
    /\ UNCHANGED <<outputs, exiting_in_stdout, out_file>>
    /\ UNCHANGED <<envvars, rawvars>>

\* lines 50-55
CheckWerr ==
    /\ pc = "check_werr"
    /\ IF error_file_name(seedname) \in files
       THEN pc' = "done" /\ exit_code' = "ERROR_WERR_FILE_PRESENT"
       ELSE pc' = "open_stdout" /\ exit_code' = exit_code
    /\ UNCHANGED <<outputs, exiting_in_stdout, out_file>>
    /\ UNCHANGED <<envvars, rawvars>>

\* lines 57-66 without the except clause: the OSError leaves parse
OpenStdoutUncaught ==
    /\ pc = "open_stdout"
    /\ IF output_file_name(seedname) \in files
       THEN /\ out_file' = ReadLines(stdout_content)
            /\ exiting_in_stdout' = AnyExiting(ReadLines(stdout_content))
            /\ pc' = "parse_dos"
       ELSE /\ pc' = "raised"
            /\ UNCHANGED <<exiting_in_stdout, out_file>>
    /\ UNCHANGED <<exit_code, outputs>>
    /\ UNCHANGED <<envvars, rawvars>>

\* lines 57-66: opening a file the folder does not hold raises OSError
OpenStdout ==
    /\ pc = "open_stdout"
    /\ IF output_file_name(seedname) \in files
       THEN /\ out_file' = ReadLines(stdout_content)
            /\ exiting_in_stdout' = AnyExiting(ReadLines(stdout_content))
            /\ pc' = "parse_dos"
            /\ exit_code' = exit_code
       ELSE /\ pc' = "done"
            /\ exit_code' = "ERROR_OUTPUT_STDOUT_MISSING"
            /\ UNCHANGED <<exiting_in_stdout, out_file>>
    /\ UNCHANGED outputs
    /\ UNCHANGED <<envvars, rawvars>>

\* lines 69-81
ParseDos ==
    /\ pc = "parse_dos"
    /\ IF dos_requested /\ dos_file_name(seedname) \in files
       THEN outputs' = Publish(outputs, "output_dos", dos_parser(dos_content))
       ELSE outputs' = outputs
    /\ pc' = "call_parser"
    /\ UNCHANGED <<exit_code, exiting_in_stdout, out_file>>
    /\ UNCHANGED <<envvars, rawvars>>

\* line 84, the call
CallParser ==
    /\ pc = "call_parser"
    /\ pc' = "in_parser"
    /\ EnterParser(out_file)
    /\ UNCHANGED <<exit_code, outputs, exiting_in_stdout, out_file>>
    /\ UNCHANGED envvars

\* lines 84-89, once raw_wpout_parser has returned
PublishParameters ==
    /\ pc = "in_parser"
    /\ rpc = "returned"
    /\ outputs' = Publish(outputs, "output_parameters", out)
    /\ exit_code' = IF exiting_in_stdout THEN "ERROR_EXITING_MESSAGE_IN_STDOUT"
                    ELSE "None"
    /\ pc' = "done"
    /\ UNCHANGED <<exiting_in_stdout, out_file>>
    /\ UNCHANGED <<envvars, rawvars>>

\* line 84, when raw_wpout_parser raises: nothing in parse catches it
Propagate ==
    /\ pc = "in_parser"
    /\ rpc = "raised"
    /\ pc' = "raised"
    /\ UNCHANGED <<exit_code, outputs, exiting_in_stdout, out_file>>
    /\ UNCHANGED <<envvars, rawvars>>

Next ==
    \/ GetRetrieved
    \/ CheckWerr
    \/ OpenStdout
    \/ ParseDos
    \/ CallParser
    \/ PublishParameters
    \/ Propagate
    \/ ForIter
    \/ PostIf
    \/ PostTest
    \/ PostBody
    \/ DosIf
    \/ DosTest
    \/ DosBody
    \/ ForReturn

\* the files a run of postw90.x with this seed name may leave in the folder
FileNames(seed) == {seed \o ".wpout", seed \o ".werr", seed \o "-dos.dat"}

\* files of another seed name that the folder may hold as well
OtherFiles == {"aiida.werr", "aiida.wpout"}

\* parse called on a finished calculation
Init ==
    /\ seedname \in Seeds
    /\ retrieved \in BOOLEAN
    /\ files \in SUBSET (FileNames(seedname) \cup OtherFiles)
    /\ ~retrieved => files = {}
    /\ dos_requested \in BOOLEAN
    /\ IF (seedname \o ".wpout") \in files
       THEN stdout_content \in SeqsUpTo(StdoutLines, MaxStdoutLen)
       ELSE stdout_content = <<>>
    /\ IF (seedname \o "-dos.dat") \in files
       THEN dos_content \in DosTables
       ELSE dos_content = <<>>
    /\ pc = "start"
    /\ exit_code = "unset"
    /\ outputs = <<>>
    /\ exiting_in_stdout = FALSE
    /\ out_file = <<>>
    /\ wann_out_file = <<>>
    /\ rpc = "idle"
    /\ k = 0
    /\ i = 0
    /\ line = StrLine("")
    /\ out = [x \in {"warnings"} |-> <<>>]
    /\ error = "none"

Spec == Init /\ [][Next]_vars

\* the interpreter always runs the next statement
FairSpec == Init /\ [][Next]_vars /\ WF_vars(Next)

(***************************************************************************)
(* Properties.                                                             *)
(***************************************************************************)
PublishedCount(name) == Cardinality({ j \in DOMAIN outputs : outputs[j].name = name })

WerrPresent == (seedname \o ".werr") \in files
StdoutPresent == (seedname \o ".wpout") \in files
DosFilePresent == (seedname \o "-dos.dat") \in files

Returned == rpc = "returned"

ContainsWarningText(s) == In("Warning", s)
NoWarningLine(f) == \A j \in DOMAIN f : ~In("Warning", f[j])
IsMarker(s) == In("POSTW90", s) \/ In("DOS", s)

\* C1: when the retrieved folder is there and holds <seed>.werr, parse returns
\* ERROR_WERR_FILE_PRESENT whatever else the folder holds, and publishes
\* neither output_parameters nor output_dos.
C1_WerrWins ==
    (retrieved /\ WerrPresent) =>
        /\ outputs = <<>>
        /\ \/ pc \in {"start", "check_werr"}
           \/ pc = "done" /\ exit_code = "ERROR_WERR_FILE_PRESENT"

C1_Witness ==
    /\ pc = "done"
    /\ retrieved /\ WerrPresent /\ StdoutPresent /\ DosFilePresent /\ dos_requested
    /\ files \cap OtherFiles = {}
    /\ Len(stdout_content) = 3
    /\ In("POSTW90", stdout_content[1]) /\ In("-----", stdout_content[2])
    /\ exit_code = "ERROR_WERR_FILE_PRESENT"
    /\ outputs = <<>>

\* C2, as claimed: when the folder holds no <seed>.wpout, parse returns
\* ERROR_OUTPUT_STDOUT_MISSING regardless of the other files in the folder.
C2_AsClaimed ==
    (retrieved /\ ~StdoutPresent) =>
        \/ pc \in {"start", "check_werr", "open_stdout"}
        \/ pc = "done" /\ exit_code = "ERROR_OUTPUT_STDOUT_MISSING"

\* C2, amended: when the retrieved folder is there and holds neither
\* <seed>.werr nor <seed>.wpout, parse returns ERROR_OUTPUT_STDOUT_MISSING
\* regardless of the other files in the folder.
C2_StdoutMissing ==
    (retrieved /\ ~WerrPresent /\ ~StdoutPresent) =>
        \/ pc \in {"start", "check_werr", "open_stdout"}
        \/ pc = "done" /\ exit_code = "ERROR_OUTPUT_STDOUT_MISSING"

C2_Witness ==
    /\ pc = "done"
    /\ retrieved /\ ~WerrPresent /\ ~StdoutPresent /\ DosFilePresent /\ dos_requested
    /\ "aiida.wpout" \in files
    /\ exit_code = "ERROR_OUTPUT_STDOUT_MISSING"

\* a line of a POSTW90 section that reports an integer parameter
IsIntParameterLine(s) ==
    /\ ~In("-----", s)
    /\ \/ In("Number of Wannier Functions", s)
       \/ In("Number of electrons per state", s)
       \/ In("Output verbosity (1=low, 5=high)", s)
    /\ HasValueToken(Split(s)) /\ IsIntLiteral(ValueToken(Split(s)))

\* marker, one or more parameter lines, dash line
WellFormedPostSection(f) ==
    /\ Len(f) >= 3
    /\ In("POSTW90", f[1])
    /\ \A j \in 2..(Len(f) - 1) : IsIntParameterLine(f[j])
    /\ In("-----", f[Len(f)])

Without(f, e) == SubSeq(f, 1, e - 1) \o SubSeq(f, e + 1, Len(f))

ExitingPlusPostSection(f) ==
    \E e \in DOMAIN f :
        /\ In("Exiting......", f[e])
        /\ WellFormedPostSection(Without(f, e))

\* C3: with the folder there, no <seed>.werr, a <seed>.wpout that opens and
\* holds one "Exiting......" line and otherwise a well-formed POSTW90 section,
\* parse publishes output_parameters exactly once and then returns
\* ERROR_EXITING_MESSAGE_IN_STDOUT.
C3_ExitingStillPublishes ==
    (retrieved /\ ~WerrPresent /\ StdoutPresent /\ ExitingPlusPostSection(stdout_content))
        => <>(/\ pc = "done"
              /\ exit_code = "ERROR_EXITING_MESSAGE_IN_STDOUT"
              /\ PublishedCount("output_parameters") = 1)

\* C4: raw_wpout_parser raises no error, whatever the line list.
C4_NeverRaises == rpc # "raised" /\ error = "none"

\* every POSTW90 and every DOS marker line is followed later by a dash line
MarkersClosed(f) ==
    \A m \in DOMAIN f :
        IsMarker(f[m]) => \E d \in DOMAIN f : d > m /\ In("-----", f[d])

\* C5: on a line list whose every marker line is followed later by a dash
\* line, raw_wpout_parser eventually returns, and every pass of the body of
\* the POSTW90 scan and of the DOS scan strictly increases the cursor i.
C5_ScanTerminates ==
    /\ MarkersClosed(wann_out_file) => <>Returned
    /\ [][(/\ MarkersClosed(wann_out_file)
           /\ \/ rpc = "post_body" /\ rpc' = "post_while"
              \/ rpc = "dos_body" /\ rpc' = "dos_while") => i' > i]_vars

\* C6: on [POSTW90 line, "Number of Wannier Functions" line whose
\* second-to-last token is the integer n, dash line] raw_wpout_parser returns
\* a mapping with number_wannier_functions = n.
C6_NumberWannierFunctions ==
    (/\ Len(wann_out_file) = 3
     /\ In("POSTW90", wann_out_file[1])
     /\ In("Number of Wannier Functions", wann_out_file[2])
     /\ IsIntLiteral(ValueToken(Split(wann_out_file[2])))
     /\ In("-----", wann_out_file[3]))
        => <>(/\ Returned
              /\ "number_wannier_functions" \in DOMAIN out
              /\ out["number_wannier_functions"] = IntValue(ValueToken(Split(wann_out_file[2]))))

\* the whitespace split of s has integers at the 0-indexed positions 4, 6, 8
GridTokensAt468(s) ==
    /\ Len(Split(s)) >= 9
    /\ IsIntLiteral(Split(s)[5]) /\ IsIntLiteral(Split(s)[7]) /\ IsIntLiteral(Split(s)[9])

\* a DOS section from line m to the dash line d with the Grid size line g
DosSectionWithGrid(f, m, g, d) ==
    /\ m < g /\ g < d
    /\ In("DOS", f[m])
    /\ \A j \in (m + 1)..(d - 1) : ~In("-----", f[j])
    /\ In("-----", f[d])
    /\ In("Grid size", f[g])
    /\ GridTokensAt468(f[g])

\* C7: for a DOS section closed by a dash line that holds a "Grid size" line
\* of nine or more tokens with integers at positions 4, 6 and 8,
\* raw_wpout_parser does not fail and returns dos_kmesh = [token4, token6, token8].
C7_GridSize ==
    \A m, g, d \in DOMAIN wann_out_file :
        DosSectionWithGrid(wann_out_file, m, g, d) =>
            /\ rpc # "raised"
            /\ Returned =>
                /\ "dos_kmesh" \in DOMAIN out
                /\ out["dos_kmesh"] = << IntValue(Split(wann_out_file[g])[5]),
                                         IntValue(Split(wann_out_file[g])[7]),
                                         IntValue(Split(wann_out_file[g])[9]) >>

\* C8: when no input line contains "Warning", the warnings list of the
\* returned mapping is empty.
C8_NoWarningLinesNoWarnings ==
    (Returned /\ NoWarningLine(wann_out_file)) => out["warnings"] = <<>>

C8_Witness ==
    /\ Returned
    /\ NoWarningLine(wann_out_file)
    /\ \E m, j \in DOMAIN wann_out_file :
           /\ m < j
           /\ In("POSTW90", wann_out_file[m])
           /\ In("Length Unit", wann_out_file[j])

\* the number of lines the for statement has drawn so far
LinesDrawn == IF rpc \in {"idle", "for", "returned"} THEN k ELSE k + 1

C10_NoPostKeys ==
    Returned =>
        /\ DOMAIN out \subseteq {"warnings", "dos_energy_min", "dos_energy_max",
                                 "dos_energy_step", "dos_kmesh"}
        /\ \A j \in DOMAIN out["warnings"] :
               out["warnings"][j] \notin {UnitsWarning, VerbosityWarning}

C10_Witness ==
    /\ Returned
    /\ \E m, j \in DOMAIN wann_out_file :
           /\ m < j
           /\ In("POSTW90", wann_out_file[m])
           /\ In("Number of Wannier Functions", wann_out_file[j])
    /\ DOMAIN out = {"warnings"}

====
